---- MODULE Spec2Model ----
(***************************************************************************)
(* A model of mausignald's SignaldClient (src/mausignald/signald.py): the  *)
(* subscription manager, the event-handler registry, the send pipeline and *)
(* the other commands.                                                     *)
(*                                                                         *)
(* The client runs on one asyncio event loop.  A coroutine runs without    *)
(* interruption from one await that really suspends to the next, so every  *)
(* action below is one such stretch of code: it starts where a request is  *)
(* answered or an awaited event handler finishes, and it ends where the    *)
(* next request is sent, the next handler is awaited, or the call returns. *)
(***************************************************************************)
EXTENDS Integers, Sequences, FiniteSets, TLC

\* ------------------------------------------------------------------ bounds
NumAccounts == 2
MaxHandlers == 2
MaxResults == 3

Accounts == 1..NumAccounts
Handlers == {"h1", "h2"}
Variants == {"Message", "StateChange"}
None == "None"

VARIABLES
    subscriptions,   \* self._subscriptions: the set of subscribed usernames
    insertOrder,     \* history: the members of the set in the order they were added
    unsubscribed,    \* history: the accounts unsubscribed with success, and no subscribe called for since
    event_handlers,  \* self._event_handlers: variant -> its list of handlers, if the key is there
    regOrder,        \* history: per variant, the live registrations, oldest first
    pending,         \* the requests sent to the transport and not yet answered
    user,            \* a caller of subscribe / unsubscribe
    conn,            \* the CONNECT handler, _resubscribe
    disc,            \* the DISCONNECT handler, _on_disconnect
    dsp,             \* the push-frame handler and the dispatch it is running
    snd,             \* a caller of send
    call,            \* a caller of one of the other commands
    last             \* history: what the last step did

vars == <<subscriptions, insertOrder, unsubscribed, event_handlers, regOrder, pending,
          user, conn, disc, dsp, snd, call, last>>

\* ----------------------------------------------------------- the transport
\* What awaiting self.request(...) can give: the response, an UnexpectedError
\* whose str() is `text`, or an error of another class (UnexpectedResponse).
AuthFailedText == "[401] Authorization failed!"
ErrorTexts == {AuthFailedText, "[401] Authorization failed", "Connection lost"}

RequestOutcomes ==
    {[kind |-> "ok", text |-> ""], [kind |-> "UnexpectedResponse", text |-> ""]}
    \cup {[kind |-> "UnexpectedError", text |-> t] : t \in ErrorTexts}

Request(task, cmd, acct) == [task |-> task, cmd |-> cmd, acct |-> acct]

\* The history of one step: who took it, what it was, for which account, the
\* error text of the request behind it, the events the call has dispatched; and
\* when the step ends a CONNECT or DISCONNECT handler (fin), what that handler
\* did (log) and what the set held when it started (start).  For a dispatch of
\* the push-frame handler: the handlers it started and ended (log), the live
\* registrations when it began (start), whether the list changed under it.
Step(task, kind, acct, err, evts) ==
    [task |-> task, kind |-> kind, acct |-> acct, err |-> err, evts |-> evts,
     fin |-> "", log |-> <<>>, start |-> <<>>, mutated |-> FALSE]
NoStep == Step("", "init", 0, "", <<>>)

\* ------------------------------------------------------- the python set
\* The slot order of the usernames in the set's hash table.  It follows from the
\* hashes of the strings, not from the order of insertion; the accounts are
\* numbered by it, and every order of insertion of them is explored.
hashOrder == [i \in 1..NumAccounts |-> i]

\* list(s), and the order `for x in s` visits: by slot in the hash table.
ListOf(S) == SelectSeq(hashOrder, LAMBDA a : a \in S)

\* set iterator: the first occupied slot after position pos, or 0.
NextSlot(pos, S) ==
    LET c == {j \in (pos + 1)..Len(hashOrder) : hashOrder[j] \in S}
    IN IF c = {} THEN 0 ELSE CHOOSE j \in c : \A k \in c : j <= k

Inserted(order, S) ==
    LET kept == SelectSeq(order, LAMBDA a : a \in S)
        new == S \ {kept[i] : i \in DOMAIN kept}
    IN IF new = {} THEN kept ELSE Append(kept, CHOOSE a \in new : TRUE)

\* ------------------------------------------------------ event registry
\* A variant's entry of the dict: no key yet, or the list under the key.
NoKey == [present |-> FALSE, list |-> <<>>]
Entry(l) == [present |-> TRUE, list |-> l]

\* add_event_handler, line 58: setdefault(event_class, []).append(handler)
add_handler(e, h) == Entry(Append(e.list, h))

\* list.remove(h): without the first item equal to h
RemoveFirst(l, h) ==
    LET i == CHOOSE i \in 1..Len(l) : l[i] = h /\ \A j \in 1..(i - 1) : l[j] # h
    IN SubSeq(l, 1, i - 1) \o SubSeq(l, i + 1, Len(l))

Occurs(l, h) == \E i \in 1..Len(l) : l[i] = h

\* remove_event_handler, line 61: setdefault(event_class, []).remove(handler);
\* setdefault leaves the key behind even when remove raises ValueError.
remove_handler(e, h) == IF Occurs(e.list, h) THEN Entry(RemoveFirst(e.list, h)) ELSE Entry(e.list)

\* _run_event_handler, lines 69-73: after the awaited handler at index i of the
\* live list l has finished, the index of the next one, or 0 when the loop is
\* over; an exception the handler raised was caught and logged.
run_event_handler_next_abort(raised, i, l) ==
    IF raised THEN 0 ELSE IF i < Len(l) THEN i + 1 ELSE 0

run_event_handler_next(raised, i, l) == IF i < Len(l) THEN i + 1 ELSE 0

HasHandlers(v) == event_handlers[v].present /\ Len(event_handlers[v].list) > 0

\* ------------------------------------------------ subscription manager
StateChangeEvent(state, account, exception) ==
    [variant |-> "StateChange", state |-> state, account |-> account,
     exception |-> exception]

subscribe_state_any401(text) ==
    IF text \in {AuthFailedText, "[401] Authorization failed"}
    THEN "AUTHENTICATION_FAILED" ELSE "DISCONNECTED"

subscribe_state(text) ==
    IF text = AuthFailedText THEN "AUTHENTICATION_FAILED" ELSE "DISCONNECTED"

\* subscribe, lines 94-109, from the answer o of its request to its first await
\* of an event handler or its return: the new set, how it ends, the event.
subscribe_set_eager(username, o) ==
    IF o.kind = "UnexpectedResponse" THEN subscriptions
    ELSE subscriptions \cup {username}

subscribe_set_drop(username, o) ==
    IF o.kind = "ok" THEN subscriptions \cup {username}
    ELSE subscriptions \ {username}

subscribe_set(username, o) ==
    IF o.kind = "ok" THEN subscriptions \cup {username} ELSE subscriptions

subscribe_events(username, o) ==
    IF o.kind = "UnexpectedError"
    THEN <<StateChangeEvent(subscribe_state(o.text), username, None)>>
    ELSE <<>>

subscribe_ret(o) ==
    CASE o.kind = "ok" -> "True"
      [] o.kind = "UnexpectedError" ->
            IF HasHandlers("StateChange") THEN "await" ELSE "False"
      [] OTHER -> "raise"

\* unsubscribe, lines 112-118: set.remove raises KeyError on a missing member.
unsubscribe_set(username, o) ==
    IF o.kind = "ok" THEN subscriptions \ {username} ELSE subscriptions

unsubscribe_ret(username, o) ==
    CASE o.kind = "ok" -> IF username \in subscriptions THEN "True" ELSE "KeyError"
      [] o.kind = "UnexpectedError" -> "False"
      [] OTHER -> "raise"

UserIdle == [pc |-> "idle", acct |-> 0, hidx |-> 0, evts |-> <<>>, err |-> ""]

\* await self.request("subscribe", "subscribed", username=username)
subscribe(username) ==
    /\ user.pc = "idle"
    /\ user' = [UserIdle EXCEPT !.pc = "sub_req", !.acct = username]
    /\ pending' = pending \cup {Request("user", "subscribe", username)}
    /\ last' = Step("user", "sub_call", username, "", <<>>)
    /\ unsubscribed' = unsubscribed \ {username}
    /\ UNCHANGED <<subscriptions, insertOrder, event_handlers, regOrder,
                   conn, disc, dsp, snd, call>>

subscribe_answered(o) ==
    /\ user.pc = "sub_req"
    /\ LET a == user.acct
           evts == subscribe_events(a, o)
           ret == subscribe_ret(o)
       IN /\ subscriptions' = subscribe_set(a, o)
          /\ insertOrder' = Inserted(insertOrder, subscriptions')
          /\ pending' = pending \ {Request("user", "subscribe", a)}
          /\ IF ret = "await"
             THEN /\ user' = [user EXCEPT !.pc = "sub_hdl", !.hidx = 1,
                                          !.evts = evts, !.err = o.text]
                  /\ last' = Step("user", "sub_dispatch", a, o.text, evts)
             ELSE /\ user' = UserIdle
                  /\ last' = Step("user", "sub_" \o ret, a,
                                  IF o.kind = "UnexpectedError" THEN o.text ELSE o.kind,
                                  evts)
    /\ UNCHANGED <<unsubscribed, event_handlers, regOrder, conn, disc, dsp, snd, call>>

\* an awaited handler of the event finishes, normally or by raising (caught)
subscribe_handler_done(raised) ==
    /\ user.pc = "sub_hdl"
    /\ IF run_event_handler_next(raised, user.hidx, event_handlers["StateChange"].list) > 0
       THEN /\ user' = [user EXCEPT !.hidx = @ + 1]
            /\ last' = Step("user", "hdl_done",
                            user.acct, user.err, user.evts)
       ELSE /\ user' = UserIdle
            /\ last' = Step("user", "sub_False", user.acct, user.err, user.evts)
    /\ UNCHANGED <<subscriptions, insertOrder, unsubscribed, event_handlers, regOrder,
                   pending, conn, disc, dsp, snd, call>>

\* await self.request("unsubscribe", "unsubscribed", username=username)
unsubscribe(username) ==
    /\ user.pc = "idle"
    /\ user' = [UserIdle EXCEPT !.pc = "unsub_req", !.acct = username]
    /\ pending' = pending \cup {Request("user", "unsubscribe", username)}
    /\ last' = Step("user", "unsub_call", username, "", <<>>)
    /\ UNCHANGED <<subscriptions, insertOrder, unsubscribed, event_handlers, regOrder,
                   conn, disc, dsp, snd, call>>

unsubscribe_answered(o) ==
    /\ user.pc = "unsub_req"
    /\ LET a == user.acct
       IN /\ subscriptions' = unsubscribe_set(a, o)
          /\ insertOrder' = Inserted(insertOrder, subscriptions')
          /\ pending' = pending \ {Request("user", "unsubscribe", a)}
          /\ user' = UserIdle
          /\ last' = Step("user", "unsub_" \o unsubscribe_ret(a, o), a,
                          IF o.kind = "UnexpectedError" THEN o.text ELSE o.kind, <<>>)
          /\ unsubscribed' = IF unsubscribe_ret(a, o) = "True"
                             THEN unsubscribed \cup {a} ELSE unsubscribed
    /\ UNCHANGED <<event_handlers, regOrder, conn, disc, dsp, snd, call>>

\* ---------------------------------------------- CONNECT: _resubscribe
\* The transport signals CONNECT and DISCONNECT from its one connection loop,
\* which awaits the handler of one signal before it can raise the next: the two
\* handlers never run at once, and each runs beside the callers' requests.
ConnIdle == [pc |-> "idle", snap |-> <<>>, k |-> 0, hidx |-> 0, evts |-> <<>>,
             err |-> "", issued |-> <<>>, start |-> <<>>]

\* list(self._subscriptions), line 123
resubscribe_list_all == ListOf(Accounts)

resubscribe_list == ListOf(subscriptions)

ConnFinished(kind, a, err, evts, fin) ==
    [Step("conn", kind, a, err, evts) EXCEPT
        !.fin = fin, !.log = conn.issued, !.start = conn.start]

\* the loop of line 123 after the subscribe of snap[k] has returned True or False
resubscribe_continue(kind, a, err, evts) ==
    IF conn.k < Len(conn.snap)
    THEN LET b == conn.snap[conn.k + 1]
         IN /\ conn' = [conn EXCEPT !.pc = "sub_req", !.k = @ + 1, !.hidx = 0,
                                    !.evts = <<>>, !.err = "",
                                    !.issued = Append(@, b)]
            /\ pending' = (pending \ {Request("conn", "subscribe", a)})
                              \cup {Request("conn", "subscribe", b)}
            /\ last' = Step("conn", kind, a, err, evts)
    ELSE /\ conn' = ConnIdle
         /\ pending' = pending \ {Request("conn", "subscribe", a)}
         /\ last' = ConnFinished(kind, a, err, evts, "done")

resubscribe ==
    /\ conn.pc = "idle" /\ disc.pc = "idle"
    /\ IF subscriptions = {}
       THEN /\ conn' = ConnIdle
            /\ pending' = pending
            /\ last' = [Step("conn", "conn_empty", 0, "", <<>>) EXCEPT !.fin = "done"]
       ELSE LET snap == resubscribe_list
            IN /\ conn' = [ConnIdle EXCEPT !.pc = "sub_req", !.snap = snap, !.k = 1,
                                           !.issued = <<snap[1]>>,
                                           !.start = insertOrder]
               /\ pending' = pending \cup {Request("conn", "subscribe", snap[1])}
               /\ last' = Step("conn", "sub_call", snap[1], "", <<>>)
    /\ UNCHANGED <<subscriptions, insertOrder, unsubscribed, event_handlers, regOrder,
                   user, disc, dsp, snd, call>>

resubscribe_answered(o) ==
    /\ conn.pc = "sub_req"
    /\ LET a == conn.snap[conn.k]
           evts == subscribe_events(a, o)
           ret == subscribe_ret(o)
           err == IF o.kind = "UnexpectedError" THEN o.text ELSE o.kind
       IN /\ subscriptions' = subscribe_set(a, o)
          /\ insertOrder' = Inserted(insertOrder, subscriptions')
          /\ CASE ret = "await" ->
                    /\ conn' = [conn EXCEPT !.pc = "sub_hdl", !.hidx = 1,
                                            !.evts = evts, !.err = o.text]
                    /\ pending' = pending \ {Request("conn", "subscribe", a)}
                    /\ last' = Step("conn", "sub_dispatch", a, o.text, evts)
               [] ret = "raise" ->
                    /\ conn' = ConnIdle
                    /\ pending' = pending \ {Request("conn", "subscribe", a)}
                    /\ last' = ConnFinished("sub_raise", a, err, evts, "raise")
               [] OTHER -> resubscribe_continue("sub_" \o ret, a, err, evts)
    /\ UNCHANGED <<unsubscribed, event_handlers, regOrder, user, disc, dsp, snd, call>>

resubscribe_handler_done(raised) ==
    /\ conn.pc = "sub_hdl"
    /\ IF run_event_handler_next(raised, conn.hidx, event_handlers["StateChange"].list) > 0
       THEN /\ conn' = [conn EXCEPT !.hidx = @ + 1]
            /\ pending' = pending
            /\ last' = Step("conn", "hdl_done",
                            conn.snap[conn.k], conn.err, conn.evts)
       ELSE resubscribe_continue("sub_False", conn.snap[conn.k], conn.err, conn.evts)
    /\ UNCHANGED <<subscriptions, insertOrder, unsubscribed, event_handlers, regOrder,
                   user, disc, dsp, snd, call>>

\* ------------------------------------------- DISCONNECT: _on_disconnect
DiscIdle == [pc |-> "idle", size |-> 0, pos |-> 0, hidx |-> 0, evts |-> <<>>,
             start |-> <<>>]

disconnect_event(username) ==
    StateChangeEvent("SOCKET_DISCONNECTED", username, "Disconnected from signald")

\* `for username in self._subscriptions` from slot pos on, lines 129-135, up to
\* the first handler it awaits: the iterator raises RuntimeError when the set's
\* size is not the size it had when the iteration started.
RECURSIVE disconnect_loop(_, _, _)
disconnect_loop(size, pos, evts) ==
    IF Cardinality(subscriptions) # size
    THEN [st |-> "raise", pos |-> pos, evts |-> evts]
    ELSE LET j == NextSlot(pos, subscriptions)
         IN IF j = 0
            THEN [st |-> "done", pos |-> pos, evts |-> evts]
            ELSE LET more == Append(evts, disconnect_event(hashOrder[j]))
                 IN IF HasHandlers("StateChange")
                    THEN [st |-> "await", pos |-> j, evts |-> more]
                    ELSE disconnect_loop(size, j, more)

DiscAfter(r, size, start) ==
    IF r.st = "await"
    THEN /\ disc' = [pc |-> "hdl", size |-> size, pos |-> r.pos, hidx |-> 1,
                     evts |-> r.evts, start |-> start]
         /\ last' = Step("disc", "disc_dispatch", hashOrder[r.pos], "", r.evts)
    ELSE /\ disc' = DiscIdle
         /\ last' = [Step("disc", "disc_" \o r.st, 0, "", r.evts) EXCEPT
                        !.fin = r.st, !.log = r.evts, !.start = start]

on_disconnect ==
    /\ disc.pc = "idle" /\ conn.pc = "idle"
    /\ IF subscriptions = {}
       THEN /\ disc' = DiscIdle
            /\ last' = [Step("disc", "disc_empty", 0, "", <<>>) EXCEPT !.fin = "done"]
       ELSE DiscAfter(disconnect_loop(Cardinality(subscriptions), 0, <<>>),
                      Cardinality(subscriptions), ListOf(subscriptions))
    /\ UNCHANGED <<subscriptions, insertOrder, unsubscribed, event_handlers, regOrder,
                   pending, user, conn, dsp, snd, call>>

on_disconnect_handler_done(raised) ==
    /\ disc.pc = "hdl"
    /\ IF run_event_handler_next(raised, disc.hidx, event_handlers["StateChange"].list) > 0
       THEN /\ disc' = [disc EXCEPT !.hidx = @ + 1]
            /\ last' = Step("disc", "hdl_done",
                            hashOrder[disc.pos], "", disc.evts)
       ELSE DiscAfter(disconnect_loop(disc.size, disc.pos, disc.evts),
                      disc.size, disc.start)
    /\ UNCHANGED <<subscriptions, insertOrder, unsubscribed, event_handlers, regOrder,
                   pending, user, conn, dsp, snd, call>>


\* ------------------------------------- push frames and event dispatch
DspIdle == [pc |-> "idle", variant |-> "", hidx |-> 0, cur |-> "", log |-> <<>>,
            begin |-> <<>>, mutated |-> FALSE]

DspStep(kind, variant, log, begin, mutated) ==
    [Step("dsp", kind, 0, variant, <<>>) EXCEPT
        !.fin = IF kind \in {"dispatch_done", "dispatch_nokey", "dispatch_empty"}
                THEN "done" ELSE IF kind = "frame_KeyError" THEN "raise" ELSE "",
        !.log = log, !.start = begin, !.mutated = mutated]

\* _parse_message, lines 76-80: the event class of the frame's type tag
parse_message_class(event_type) ==
    IF event_type = "message" THEN "Message" ELSE "KeyError"

\* _run_event_handler(event) for an event of variant v, lines 64-71, up to the
\* first handler it awaits
run_event_handler(v) ==
    IF ~event_handlers[v].present
    THEN /\ dsp' = DspIdle
         /\ last' = DspStep("dispatch_nokey", v, <<>>, regOrder[v], FALSE)
    ELSE IF Len(event_handlers[v].list) = 0
    THEN /\ dsp' = DspIdle
         /\ last' = DspStep("dispatch_empty", v, <<>>, regOrder[v], FALSE)
    ELSE LET h == event_handlers[v].list[1]
             log == <<[h |-> h, ph |-> "start"]>>
         IN /\ dsp' = [pc |-> "hdl", variant |-> v, hidx |-> 1, cur |-> h,
                       log |-> log, begin |-> regOrder[v], mutated |-> FALSE]
            /\ last' = DspStep("dispatch_start", v, log, regOrder[v], FALSE)

\* a "websocket_connection_state_change" frame, lines 89-91
websocket_connection_state_change ==
    /\ dsp.pc = "idle"
    /\ run_event_handler("StateChange")
    /\ UNCHANGED <<subscriptions, insertOrder, unsubscribed, event_handlers, regOrder, pending,
                   user, conn, disc, snd, call>>

\* a "message" frame, lines 75-82
parse_message(event_type) ==
    /\ dsp.pc = "idle"
    /\ IF parse_message_class(event_type) = "KeyError"
       THEN /\ dsp' = DspIdle
            /\ last' = DspStep("frame_KeyError", event_type, <<>>, <<>>, FALSE)
       ELSE run_event_handler(parse_message_class(event_type))
    /\ UNCHANGED <<subscriptions, insertOrder, unsubscribed, event_handlers, regOrder, pending,
                   user, conn, disc, snd, call>>

\* the handler the dispatch awaits finishes, normally or by raising
run_event_handler_done(raised) ==
    /\ dsp.pc = "hdl"
    /\ LET l == event_handlers[dsp.variant].list
           log == Append(dsp.log, [h |-> dsp.cur,
                                   ph |-> IF raised THEN "raised" ELSE "end"])
           next == run_event_handler_next(raised, dsp.hidx, l)
       IN IF next > 0
          THEN /\ dsp' = [dsp EXCEPT !.hidx = next, !.cur = l[next],
                              !.log = Append(log, [h |-> l[next], ph |-> "start"])]
               /\ last' = DspStep("dispatch_next", dsp.variant, dsp'.log, dsp.begin,
                                  dsp.mutated)
          ELSE /\ dsp' = DspIdle
               /\ last' = DspStep("dispatch_done", dsp.variant, log, dsp.begin,
                                  dsp.mutated)
    /\ UNCHANGED <<subscriptions, insertOrder, unsubscribed, event_handlers, regOrder, pending,
                   user, conn, disc, snd, call>>

\* add_event_handler(event_class, handler), called by the bridge or by a handler
add_event_handler(v, h) ==
    /\ Len(event_handlers[v].list) < MaxHandlers
    /\ v = "Message" => event_handlers[v].list = <<>>
    /\ event_handlers' = [event_handlers EXCEPT ![v] = add_handler(@, h)]
    /\ regOrder' = [regOrder EXCEPT ![v] = Append(@, h)]
    /\ dsp' = IF dsp.pc = "hdl" /\ dsp.variant = v
              THEN [dsp EXCEPT !.mutated = TRUE] ELSE dsp
    /\ last' = DspStep("add", v, <<>>, <<>>, FALSE)
    /\ UNCHANGED <<subscriptions, insertOrder, unsubscribed, pending, user, conn, disc, snd, call>>

\* remove_event_handler(event_class, handler)
remove_event_handler(v, h) ==
    /\ event_handlers' = [event_handlers EXCEPT ![v] = remove_handler(@, h)]
    /\ regOrder' = [regOrder EXCEPT
                      ![v] = IF Occurs(@, h) THEN RemoveFirst(@, h) ELSE @]
    /\ dsp' = IF dsp.pc = "hdl" /\ dsp.variant = v /\ Occurs(event_handlers[v].list, h)
              THEN [dsp EXCEPT !.mutated = TRUE] ELSE dsp
    /\ last' = DspStep(IF Occurs(event_handlers[v].list, h)
                       THEN "remove" ELSE "remove_ValueError", v, <<>>, <<>>, FALSE)
    /\ UNCHANGED <<subscriptions, insertOrder, unsubscribed, pending, user, conn, disc, snd, call>>


\* ------------------------------------------------- requests of commands
\* What awaiting self.request_v1(...) can give a command: the response, an
\* UnexpectedError whose str() is `text`, or an UnexpectedResponse whose
\* resp_type is the tag the daemon answered with.
ResponseTags == {"profile_not_available", "unexpected_tag"}

CommandOutcomes ==
    {[kind |-> "ok", text |-> ""]}
    \cup {[kind |-> "UnexpectedError", text |-> t] : t \in ErrorTexts}
    \cup {[kind |-> "UnexpectedResponse", text |-> t] : t \in ResponseTags}

\* A parameter of a request, and the request: its command and its parameters.
Param(key, value) == [key |-> key, value |-> value]
Keys(params) == {p.key : p \in params}
NoRequest == [command |-> "", params |-> {}]
CommandRequest(command, params) == [command |-> command, params |-> params]

\* How a call ends: it returns a value or raises an error.
Returns(value) == [kind |-> "return", value |-> value]
Raises(class, text) == [kind |-> class, value |-> text]

\* Address.serialize(): the JSON object of the address
serialize(address) == "{number: " \o address \o "}"

\* The recipient of a message: an Address or a GroupID (a string).
Recipients == {[kind |-> "Address", value |-> "+1555"],
               [kind |-> "GroupID", value |-> "Z3JvdXA="]}

NoRecipient == [kind |-> "", value |-> ""]

\* _recipient_to_args, lines 158-167
recipient_to_args_swapped(recipient, simple_name) ==
    IF recipient.kind = "Address"
    THEN {Param(IF simple_name THEN "recipientAddress" ELSE "address",
                serialize(recipient.value))}
    ELSE {Param(IF simple_name THEN "recipientGroupId" ELSE "group", recipient.value)}

recipient_to_args(recipient, simple_name) ==
    IF recipient.kind = "Address"
    THEN {Param(IF simple_name THEN "address" ELSE "recipientAddress",
                serialize(recipient.value))}
    ELSE {Param(IF simple_name THEN "group" ELSE "recipientGroupId", recipient.value)}

\* A command that awaits its request outside any try: the response is its
\* result, and an error the request raises leaves the command as it is.
request_outcome_swallow(o) ==
    IF o.kind = "ok" THEN Returns("response")
    ELSE IF o.kind = "UnexpectedError" THEN Returns(None)
    ELSE Raises(o.kind, o.text)

request_outcome(o) ==
    IF o.kind = "ok" THEN Returns("response") ELSE Raises(o.kind, o.text)

\* --------------------------------------------------------- send pipeline
\* dict.get(key, default)
Get(d, key, default) == IF key \in DOMAIN d THEN d[key] ELSE default

\* One entry of the response's "results": the recipient and the failure fields
\* the daemon sets.  proof_required_failure is absent or carries its options.
NoProof == [present |-> FALSE, options |-> {}]
Proof(options) == [present |-> TRUE, options |-> options]

SendResult(network, unregistered, identity, proof) ==
    [address |-> [number |-> "+1555"], networkFailure |-> network,
     unregisteredFailure |-> unregistered, identityFailure |-> identity,
     proof_required_failure |-> proof]

SendResults ==
    {SendResult(FALSE, FALSE, "", NoProof),
     SendResult(TRUE, FALSE, "", NoProof),
     SendResult(FALSE, TRUE, "", NoProof),
     SendResult(FALSE, FALSE, "05ab", NoProof),
     SendResult(TRUE, TRUE, "", NoProof),
     SendResult(FALSE, TRUE, "05ab", NoProof),
     SendResult(FALSE, TRUE, "", Proof({"PUSH_CHALLENGE"}))}
    \cup {SendResult(FALSE, FALSE, "", Proof(o)) :
             o \in SUBSET {"RECAPTCHA", "PUSH_CHALLENGE"}}

SeqsUpTo(S, n) == UNION {[1..k -> S] : k \in 0..n}

\* The response of the send request: with its "results", or without the key.
SendResponses ==
    {[type |-> "send"]} \cup {[type |-> "send", results |-> rs] :
                                 rs \in SeqsUpTo(SendResults, MaxResults)}

\* lines 221-222: address = result.get("addres", {});
\* number = address.get("number") or address.get("uuid")
result_number(result) ==
    LET address == Get(result, "addres", <<>>)
        number == Get(address, "number", None)
    IN IF number # None THEN number ELSE Get(address, "uuid", None)

Line(kind, result, i) == [kind |-> kind, number |-> result_number(result), src |-> i]

\* lines 247-251: whether a proof-required failure with these options has
\* submit_challenge requested: `"RECAPTCHA" in options` is tested first, and
\* `"PUSH_CHALLENGE" in options` only in its elif.
proof_submits_any(options) == "PUSH_CHALLENGE" \in options

proof_submits(options) ==
    "RECAPTCHA" \notin options /\ "PUSH_CHALLENGE" \in options

\* lines 220-253: the loop over results from index i on, up to the first
\* submit_challenge request it awaits (at = the index of that result) or to the
\* end of the results (at = 0)
RECURSIVE classify(_, _, _, _, _)
classify(results, i, errors, unregistered_failures, successful_send_count) ==
    IF i > Len(results)
    THEN [at |-> 0, errors |-> errors, unregistered_failures |-> unregistered_failures,
          successful_send_count |-> successful_send_count]
    ELSE LET result == results[i]
             proof_required_failure == Get(result, "proof_required_failure", NoProof)
         IN CASE Get(result, "networkFailure", FALSE) ->
                   classify(results, i + 1, Append(errors, Line("network", result, i)),
                            unregistered_failures, successful_send_count)
              [] Get(result, "unregisteredFailure", FALSE) ->
                   classify(results, i + 1, errors,
                            Append(unregistered_failures, Line("unregistered", result, i)),
                            successful_send_count)
              [] Get(result, "identityFailure", "") # "" ->
                   classify(results, i + 1, Append(errors, Line("identity", result, i)),
                            unregistered_failures, successful_send_count)
              [] proof_required_failure.present ->
                   LET options == proof_required_failure.options
                       more == Append(errors, Line("proof_required", result, i))
                       all == IF "RECAPTCHA" \in options
                              THEN Append(more, Line("recaptcha", result, i))
                              ELSE more
                   IN IF proof_submits(options)
                      THEN [at |-> i, errors |-> all,
                            unregistered_failures |-> unregistered_failures,
                            successful_send_count |-> successful_send_count]
                      ELSE classify(results, i + 1, all, unregistered_failures,
                                    successful_send_count)
              [] OTHER ->
                   classify(results, i + 1, errors, unregistered_failures,
                            successful_send_count + 1)

\* lines 258-259: the errors send raises with
final_errors_always(results, errors, unregistered_failures) ==
    errors \o unregistered_failures

final_errors_any(results, errors, unregistered_failures) ==
    IF errors = <<>> THEN unregistered_failures ELSE errors

final_errors(results, errors, unregistered_failures) ==
    IF Len(unregistered_failures) = Len(results)
    THEN errors \o unregistered_failures ELSE errors

\* lines 254-257: the summary send logs
send_summary(results, unregistered_failures, successful_send_count) ==
    [sent |-> successful_send_count, total |-> Len(results),
     unregistered |-> Len(unregistered_failures)]

SndIdle == [pc |-> "idle", results |-> <<>>, at |-> 0, errors |-> <<>>,
            unregistered_failures |-> <<>>, successful_send_count |-> 0,
            challenges |-> <<>>, summaries |-> <<>>,
            outcome |-> [kind |-> "", message |-> <<>>],
            request |-> NoRequest, failed |-> "", recipient |-> NoRecipient]

\* the loop has stopped: await the challenge, or log, and raise or return
SendAfter(results, c, challenges) ==
    IF c.at > 0
    THEN snd' = [pc |-> "challenge", results |-> results, at |-> c.at,
                 errors |-> c.errors,
                 unregistered_failures |-> c.unregistered_failures,
                 successful_send_count |-> c.successful_send_count,
                 challenges |-> Append(challenges, c.at), summaries |-> <<>>,
                 outcome |-> [kind |-> "", message |-> <<>>],
                 request |-> CommandRequest("submit_challenge", {}), failed |-> "",
                 recipient |-> NoRecipient]
    ELSE LET errors == final_errors(results, c.errors, c.unregistered_failures)
         IN snd' = [pc |-> "done", results |-> results, at |-> 0,
                    errors |-> errors,
                    unregistered_failures |-> c.unregistered_failures,
                    successful_send_count |-> c.successful_send_count,
                    challenges |-> challenges,
                    summaries |-> <<send_summary(results, c.unregistered_failures,
                                                 c.successful_send_count)>>,
                    outcome |-> IF errors # <<>>
                                THEN [kind |-> "raise", message |-> errors]
                                ELSE [kind |-> "return", message |-> <<>>],
                    request |-> NoRequest, failed |-> "", recipient |-> NoRecipient]

SendUnchanged ==
    UNCHANGED <<subscriptions, insertOrder, unsubscribed, event_handlers, regOrder, pending,
                user, conn, disc, dsp, call, last>>

\* lines 202-211: the send request and its parameters
send_request(recipient) ==
    CommandRequest("send",
        {Param("username", "+1000"), Param("messageBody", "body"),
         Param("attachments", "[]"), Param("quote", None),
         Param("mentions", "[]"), Param("timestamp", None)}
        \cup recipient_to_args(recipient, FALSE))

\* resp = await self.request_v1("send", ...), line 202
send(recipient) ==
    /\ snd.pc \in {"idle", "done"}
    /\ snd' = [SndIdle EXCEPT !.pc = "send_req", !.recipient = recipient,
                              !.request = send_request(recipient)]
    /\ SendUnchanged

\* the send request fails: the error leaves send as it is
send_failed(kind) ==
    /\ snd.pc = "send_req"
    /\ snd' = [SndIdle EXCEPT
                  !.pc = "done", !.failed = kind,
                  !.outcome = [kind |-> request_outcome([kind |-> kind, text |-> ""]).kind,
                               message |-> <<>>]]
    /\ SendUnchanged

send_answered(resp) ==
    /\ snd.pc = "send_req"
    /\ LET results == Get(resp, "results", <<>>)
       IN SendAfter(results, classify(results, 1, <<>>, <<>>, 0), <<>>)
    /\ SendUnchanged

\* await self.request_v1("submit_challenge"), line 251, is answered
submit_challenge_answered ==
    /\ snd.pc = "challenge"
    /\ SendAfter(snd.results,
                 classify(snd.results, snd.at + 1, snd.errors,
                          snd.unregistered_failures, snd.successful_send_count),
                 snd.challenges)
    /\ SendUnchanged

\* ... or fails: the error leaves send before the summary is logged
submit_challenge_failed(kind) ==
    /\ snd.pc = "challenge"
    /\ snd' = [snd EXCEPT
                  !.pc = "done", !.at = 0, !.request = NoRequest, !.failed = kind,
                  !.outcome = [kind |-> request_outcome([kind |-> kind, text |-> ""]).kind,
                               message |-> <<>>]]
    /\ SendUnchanged

\* ------------------------------------------------------- other commands
CallIdle == [pc |-> "idle", cmd |-> "", input |-> <<>>, request |-> NoRequest,
             sent |-> 0, answer |-> [kind |-> "", text |-> ""],
             outcome |-> [kind |-> "", value |-> ""]]

CallUnchanged ==
    UNCHANGED <<subscriptions, insertOrder, unsubscribed, event_handlers, regOrder, pending,
                user, conn, disc, dsp, snd, last>>

\* the call sends its one request and awaits the answer
CallRequests(cmd, input, request) ==
    call' = [CallIdle EXCEPT !.pc = "req", !.cmd = cmd, !.input = input,
                             !.request = request, !.sent = 1]

\* the call ends before any request is sent
CallEnds(cmd, input, outcome) ==
    call' = [CallIdle EXCEPT !.pc = "done", !.cmd = cmd, !.input = input,
                             !.outcome = outcome]

\* trust, lines 385-393: the arguments from the two optional strings, which
\* are tested for truth: None and the empty string both count as not given.
Truthy(x) == x # None /\ x # ""

trust_args_both(safety_number, qr_code_data) ==
    IF Truthy(safety_number)
    THEN [raise |-> FALSE, params |-> {Param("safety_number", safety_number)}]
    ELSE IF Truthy(qr_code_data)
         THEN [raise |-> FALSE, params |-> {Param("qr_code_data", qr_code_data)}]
         ELSE [raise |-> TRUE, params |-> {}]

trust_args(safety_number, qr_code_data) ==
    IF Truthy(safety_number)
    THEN IF Truthy(qr_code_data)
         THEN [raise |-> TRUE, params |-> {}]
         ELSE [raise |-> FALSE, params |-> {Param("safety_number", safety_number)}]
    ELSE IF Truthy(qr_code_data)
         THEN [raise |-> FALSE, params |-> {Param("qr_code_data", qr_code_data)}]
         ELSE [raise |-> TRUE, params |-> {}]

\* trust(username, recipient, trust_level, safety_number, qr_code_data)
trust(safety_number, qr_code_data) ==
    /\ call.pc \in {"idle", "done"}
    /\ LET args == trust_args(safety_number, qr_code_data)
           input == <<safety_number, qr_code_data>>
       IN IF args.raise
          THEN CallEnds("trust", input, Raises("ValueError", ""))
          ELSE CallRequests("trust", input,
                   CommandRequest("trust",
                       {Param("account", "+1000")} \cup args.params
                       \cup {Param("trust_level", "TRUSTED_VERIFIED"),
                             Param("address", serialize("+1555"))}))
    /\ CallUnchanged

\* get_profile(username, address, use_cache), lines 349-354
get_profile(use_cache) ==
    /\ call.pc \in {"idle", "done"}
    /\ CallRequests("get_profile", <<use_cache>>,
           CommandRequest("get_profile",
               {Param("account", "+1000"), Param("address", serialize("+1555")),
                Param("async", ToString(use_cache))}))
    /\ CallUnchanged

\* lines 355-359: except UnexpectedResponse as e, and the return
get_profile_outcome_any(o) ==
    CASE o.kind = "ok" -> Returns("Profile")
      [] o.kind = "UnexpectedResponse" -> Returns(None)
      [] OTHER -> Raises(o.kind, o.text)

get_profile_outcome(o) ==
    CASE o.kind = "ok" -> Returns("Profile")
      [] o.kind = "UnexpectedResponse" /\ o.text = "profile_not_available" ->
            Returns(None)
      [] OTHER -> Raises(o.kind, o.text)

\* react(username, recipient, reaction), lines 169-177
react(recipient) ==
    /\ call.pc \in {"idle", "done"}
    /\ CallRequests("react", <<recipient>>,
           CommandRequest("react",
               {Param("username", "+1000"), Param("reaction", "{emoji}")}
               \cup recipient_to_args(recipient, FALSE)))
    /\ CallUnchanged

\* remote_delete(username, recipient, timestamp), lines 179-187
remote_delete(recipient) ==
    /\ call.pc \in {"idle", "done"}
    /\ CallRequests("remote_delete", <<recipient>>,
           CommandRequest("remote_delete",
               {Param("account", "+1000"), Param("timestamp", "1600000000")}
               \cup recipient_to_args(recipient, TRUE)))
    /\ CallUnchanged

\* send_receipt(username, sender, timestamps, when, read), lines 263-276
send_receipt(read) ==
    /\ call.pc \in {"idle", "done"}
    /\ IF ~read
       THEN CallEnds("send_receipt", <<read>>, Returns(None))
       ELSE CallRequests("send_receipt", <<read>>,
                CommandRequest("mark_read",
                    {Param("account", "+1000"), Param("timestamps", "[1600000000]"),
                     Param("when", None), Param("to", serialize("+1555"))}))
    /\ CallUnchanged

\* The commands that send one request and hand back what it gives: register,
\* verify, start_link, finish_link, list_accounts, delete_account,
\* get_linked_devices, remove_linked_device, list_contacts, list_groups,
\* update_group, accept_invitation, get_group, get_identities, set_profile;
\* named by the command they request.
PlainCommands ==
    {"register", "verify", "generate_linking_uri", "finish_link", "list_accounts",
     "delete_account", "get_linked_devices", "remove_linked_device",
     "list_contacts", "list_groups", "update_group", "accept_invitation",
     "get_group", "get_identities", "set_profile"}

plain_command(cmd) ==
    /\ call.pc \in {"idle", "done"}
    /\ CallRequests(cmd, <<>>, CommandRequest(cmd, {}))
    /\ CallUnchanged

\* how the command ends on the answer o of its request
call_outcome(cmd, o) ==
    IF cmd = "get_profile" THEN get_profile_outcome(o) ELSE request_outcome(o)

call_answered(o) ==
    /\ call.pc = "req"
    /\ call' = [call EXCEPT !.pc = "done", !.answer = o,
                            !.outcome = call_outcome(call.cmd, o)]
    /\ CallUnchanged

\* ------------------------------------------------------ specification

\* The client after __init__ and the bridge's start-up registrations: an empty
\* subscription set; the handlers of the state-change event are registered
\* before the socket connects and stay.
Init ==
    /\ subscriptions = {}
    /\ insertOrder = <<>>
    /\ unsubscribed = {}
    /\ \E e \in {NoKey, Entry(<<"h1">>)} :
          event_handlers = [v \in Variants |-> IF v = "StateChange" THEN e ELSE NoKey]
    /\ regOrder = [v \in Variants |-> <<>>]
    /\ pending = {}
    /\ user = UserIdle
    /\ conn = ConnIdle
    /\ disc = DiscIdle
    /\ dsp = DspIdle
    /\ snd = SndIdle
    /\ call = CallIdle
    /\ last = NoStep

Next ==
    \/ \E a \in Accounts : subscribe(a)
    \/ \E o \in RequestOutcomes : subscribe_answered(o)
    \/ \E r \in BOOLEAN : subscribe_handler_done(r)
    \/ \E a \in Accounts : unsubscribe(a)
    \/ \E o \in RequestOutcomes : unsubscribe_answered(o)
    \/ resubscribe
    \/ \E o \in RequestOutcomes : resubscribe_answered(o)
    \/ \E r \in BOOLEAN : resubscribe_handler_done(r)
    \/ on_disconnect
    \/ \E r \in BOOLEAN : on_disconnect_handler_done(r)

Spec == Init /\ [][Next]_vars

\* The registry on its own: a fresh client, on which handlers are registered and
\* unregistered at any moment, also while a dispatch awaits a handler, and to
\* which the daemon pushes frames.  Up to MaxHandlers handlers are registered
\* for the state-change event at a time, and one for the message event.
InitEvents ==
    /\ subscriptions = {}
    /\ insertOrder = <<>>
    /\ unsubscribed = {}
    /\ event_handlers = [v \in Variants |-> NoKey]
    /\ regOrder = [v \in Variants |-> <<>>]
    /\ pending = {}
    /\ user = UserIdle
    /\ conn = ConnIdle
    /\ disc = DiscIdle
    /\ dsp = DspIdle
    /\ snd = SndIdle
    /\ call = CallIdle
    /\ last = NoStep

NextEvents ==
    \/ \E v \in Variants, h \in Handlers : add_event_handler(v, h)
    \/ \E v \in Variants, h \in Handlers : remove_event_handler(v, h)
    \/ websocket_connection_state_change
    \/ \E t \in {"message", "version"} : parse_message(t)
    \/ \E r \in BOOLEAN : run_event_handler_done(r)

SpecEvents == InitEvents /\ [][NextEvents]_vars

\* The send pipeline on its own: one caller of send after another.
RequestErrors == {"UnexpectedError", "UnexpectedResponse"}

NextSend ==
    \/ \E r \in Recipients : send(r)
    \/ \E k \in RequestErrors : send_failed(k)
    \/ \E resp \in SendResponses : send_answered(resp)
    \/ submit_challenge_answered
    \/ \E k \in RequestErrors : submit_challenge_failed(k)

SpecSend == InitEvents /\ [][NextSend]_vars

\* The commands: callers of subscribe, unsubscribe and the other commands, whose
\* requests are in flight together on the one connection.  send is called on a
\* client on which nothing else has been called, since it shares no state with
\* the other calls.
SafetyNumbers == {None, "", "05 4f 1b"}
QrCodes == {None, "", "BQXz"}

OnlySend == call.pc = "idle" /\ user.pc = "idle" /\ last = NoStep
NoSend == snd.pc = "idle"

NextCommands ==
    \/ \E s \in SafetyNumbers, q \in QrCodes : NoSend /\ trust(s, q)
    \/ \E c \in BOOLEAN : NoSend /\ get_profile(c)
    \/ \E r \in Recipients : NoSend /\ react(r)
    \/ \E r \in Recipients : NoSend /\ remote_delete(r)
    \/ \E read \in BOOLEAN : NoSend /\ send_receipt(read)
    \/ \E cmd \in PlainCommands : NoSend /\ plain_command(cmd)
    \/ \E o \in CommandOutcomes : call_answered(o)
    \/ \E a \in Accounts : NoSend /\ subscribe(a)
    \/ \E o \in RequestOutcomes : subscribe_answered(o)
    \/ \E a \in Accounts : NoSend /\ unsubscribe(a)
    \/ \E o \in RequestOutcomes : unsubscribe_answered(o)
    \/ \E r \in Recipients : OnlySend /\ send(r)
    \/ \E k \in RequestErrors : send_failed(k)
    \/ \E resp \in SendResponses : send_answered(resp)
    \/ submit_challenge_answered
    \/ \E k \in RequestErrors : submit_challenge_failed(k)

SpecCommands == InitEvents /\ [][NextCommands]_vars

\* ------------------------------------------------------------- claims
Range(f) == {f[i] : i \in DOMAIN f}
IsPrefix(s, t) == Len(s) <= Len(t) /\ \A i \in 1..Len(s) : s[i] = t[i]

SubscribeStepKinds == {"sub_call", "sub_dispatch", "hdl_done", "sub_False", "sub_raise"}
UnsubscribeAnswers == {"unsub_True", "unsub_False", "unsub_KeyError", "unsub_raise"}

\* C1 as stated: after subscribe(a) returns success a is in the subscription
\* set, and after it returns failure a is not, whatever the set held before
\* (a resubscribe on reconnect included).
C1_AsStated ==
    /\ last.kind = "sub_True" => last.acct \in subscriptions
    /\ last.kind = "sub_False" => last.acct \notin subscriptions

\* C1 amended: the step in which subscribe(a) returns success leaves a in the
\* set; every step of a subscribe(a) that does not return success, the one in
\* which it returns failure included, leaves the set exactly as it was, so a is
\* a member afterwards if and only if it was one already.
C1_SubscribeOutcome ==
    [][ /\ last'.kind = "sub_True" =>
              subscriptions' = subscriptions \cup {last'.acct}
        /\ (last'.kind \in SubscribeStepKinds /\ last'.task \in {"user", "conn"}) =>
              subscriptions' = subscriptions ]_vars

\* C1 witness: a resubscribe of a on reconnect has just returned failure and a
\* is still in the set.
C1_Witness ==
    last.task = "conn" /\ last.kind = "sub_False" /\ last.acct \in subscriptions

ExpectedFailureEvent(acct, err) ==
    [variant |-> "StateChange",
     state |-> IF err = "[401] Authorization failed!"
               THEN "AUTHENTICATION_FAILED" ELSE "DISCONNECTED",
     account |-> acct, exception |-> None]

\* C2 as stated: every subscribe(a) whose request fails, with whatever kind of
\* error, has dispatched exactly one state-change event for a when it ends:
\* AUTHENTICATION_FAILED for the exact 401 text, DISCONNECTED otherwise; a
\* successful subscribe has dispatched none.
C2_AsStated ==
    /\ last.kind \in {"sub_False", "sub_raise"} =>
          last.evts = <<ExpectedFailureEvent(last.acct, last.err)>>
    /\ last.kind = "sub_True" => last.evts = <<>>

\* C2 amended: a subscribe(a) whose request fails with a transport error
\* (UnexpectedError) returns failure having dispatched exactly one state-change
\* event for a, AUTHENTICATION_FAILED for the exact 401 text and DISCONNECTED for
\* any other text; a subscribe whose request fails with an error of another
\* class raises it and has dispatched no event; a successful subscribe has
\* dispatched none.
C2_FailureEvent ==
    /\ last.kind = "sub_False" =>
          /\ last.err \in ErrorTexts
          /\ last.evts = <<ExpectedFailureEvent(last.acct, last.err)>>
    /\ last.kind = "sub_raise" => last.err \notin ErrorTexts /\ last.evts = <<>>
    /\ last.kind = "sub_True" => last.err = "ok" /\ last.evts = <<>>

\* C2 witness: a subscribe has returned failure on an error text that differs
\* from the 401 signature only in its last character, with a DISCONNECTED event.
C2_Witness ==
    /\ last.kind = "sub_False"
    /\ last.err = "[401] Authorization failed"
    /\ Len(last.evts) = 1 /\ last.evts[1].state = "DISCONNECTED"

\* C3 as stated: an unsubscribe(a) whose request succeeds returns success and a
\* is out of the set; one whose request fails with a transport error returns
\* failure and dispatches no event.
C3_AsStated ==
    /\ (last.kind \in UnsubscribeAnswers /\ last.err = "ok") =>
          last.kind = "unsub_True" /\ last.acct \notin subscriptions
    /\ (last.kind \in UnsubscribeAnswers /\ last.err \in ErrorTexts) =>
          last.kind = "unsub_False" /\ last.evts = <<>>

\* C4 as stated: when the CONNECT handler ends it has issued exactly one
\* subscribe request for each account that was in the set when it started, in
\* the order the accounts were inserted into the set.
C4_AsStated ==
    (last.task = "conn" /\ last.fin # "") => last.log = last.start

\* C4 amended: the CONNECT handler issues subscribe requests one at a time, only
\* for accounts of the set as it was when the handler started, never two for one
\* account, in the set's iteration order (by hash slot, not by insertion); it
\* issues one for every such account unless a request fails with an error that
\* is not a transport error, which ends the loop at that account; with an empty
\* set it issues none.
C4_Resubscribe ==
    /\ Cardinality({r \in pending : r.task = "conn"}) <= 1
    /\ conn.pc = "sub_req" => pending \cap {r \in pending : r.task = "conn"}
                                 = {Request("conn", "subscribe", conn.issued[Len(conn.issued)])}
    /\ conn.pc # "idle" => IsPrefix(conn.issued, ListOf(Range(conn.start)))
    /\ (last.task = "conn" /\ last.fin # "") =>
          /\ IsPrefix(last.log, ListOf(Range(last.start)))
          /\ last.fin = "done" => Len(last.log) = Len(last.start)
          /\ last.fin = "raise" => last.err \notin ErrorTexts \cup {"ok"}
          /\ last.kind = "conn_empty" => last.log = <<>>

\* C4 witness: the handler has ended normally with a request for each of two
\* accounts, issued in the reverse of their insertion order.
C4_Witness ==
    /\ last.task = "conn" /\ last.fin = "done"
    /\ Len(last.log) = 2
    /\ last.start = <<last.log[2], last.log[1]>>

\* C5 as stated: when the DISCONNECT handler ends, it has dispatched exactly one
\* SOCKET_DISCONNECTED event with the fixed cause for each account that was in
\* the set when it started and none for another, and no request of its own is
\* pending.  (That the handler's own steps leave the set unchanged is
\* C5_OwnStepsKeepSet.)
C5_AsStated ==
    (last.task = "disc" /\ last.fin # "") =>
        /\ last.log = [i \in 1..Len(last.start) |->
                          [variant |-> "StateChange", state |-> "SOCKET_DISCONNECTED",
                           account |-> last.start[i],
                           exception |-> "Disconnected from signald"]]
        /\ {r \in pending : r.task = "disc"} = {}

\* C5, the part that holds: no step of the DISCONNECT handler changes the
\* subscription set or sends a request.
C5_OwnStepsKeepSet ==
    [][last'.task = "disc" => subscriptions' = subscriptions /\ pending' = pending]_vars

\* C6: an account enters the subscription set only in the step in which a
\* subscribe for that account returns success on a successful acknowledgment,
\* and leaves it only in the step in which an unsubscribe for that account
\* returns success; no other step adds or removes an entry.
C6_SetChanges ==
    [][\A a \in Accounts :
          /\ (a \notin subscriptions /\ a \in subscriptions') =>
                last'.kind = "sub_True" /\ last'.acct = a /\ last'.err = "ok"
          /\ (a \in subscriptions /\ a \notin subscriptions') =>
                last'.kind = "unsub_True" /\ last'.acct = a /\ last'.err = "ok"
       ]_vars

\* C6 witness: an account has just left the set on a successful unsubscribe
\* while another account stays subscribed.
C6_Witness ==
    /\ last.kind = "unsub_True" /\ last.acct \notin subscriptions
    /\ subscriptions # {}

Started(log) == [k \in 1..((Len(log) + 1) \div 2) |-> log[2 * k - 1].h]

Sequential(log) ==
    \A i \in 1..Len(log) :
        IF i % 2 = 1 THEN log[i].ph = "start"
        ELSE log[i].ph \in {"end", "raised"} /\ log[i].h = log[i - 1].h

IsUnregistered(r) == ~r.networkFailure /\ r.unregisteredFailure
IsProofRequired(r) ==
    /\ ~r.networkFailure /\ ~r.unregisteredFailure /\ r.identityFailure = ""
    /\ r.proof_required_failure.present
IsSuccess(r) ==
    /\ ~r.networkFailure /\ ~r.unregisteredFailure /\ r.identityFailure = ""
    /\ ~r.proof_required_failure.present
Count(results, P(_)) == Cardinality({i \in 1..Len(results) : P(results[i])})
Classified == snd.pc = "done" /\ snd.outcome.kind \in {"return", "raise"}
HasLine(message, kind) == \E i \in 1..Len(message) : message[i].kind = kind

Ascending(S) ==
    CHOOSE q \in [1..Cardinality(S) -> S] :
        /\ \A i, j \in DOMAIN q : i < j => q[i] < q[j]
        /\ {q[i] : i \in DOMAIN q} = S

\* C10 as stated: when send has classified every result, a submit_challenge was
\* requested for exactly the proof-required results whose options include
\* PUSH_CHALLENGE, whatever else they include, and send raised with a
\* proof-required line for each proof-required result.
C10_AsStated ==
    Classified =>
        \A i \in 1..Len(snd.results) :
            IsProofRequired(snd.results[i]) =>
                /\ "PUSH_CHALLENGE" \in snd.results[i].proof_required_failure.options
                      <=> i \in Range(snd.challenges)
                /\ snd.outcome.kind = "raise"
                /\ \E k \in 1..Len(snd.outcome.message) :
                      /\ snd.outcome.message[k].kind = "proof_required"
                      /\ snd.outcome.message[k].src = i

AutoChallenged(results, upto) ==
    {i \in 1..upto :
        /\ IsProofRequired(results[i])
        /\ "PUSH_CHALLENGE" \in results[i].proof_required_failure.options
        /\ "RECAPTCHA" \notin results[i].proof_required_failure.options}

\* C10 amended: a submit_challenge is requested, once, for each proof-required
\* result whose options include PUSH_CHALLENGE and not RECAPTCHA, in the order
\* of the results, and for no other result; when every submit_challenge is
\* answered send raises with a proof-required line for each proof-required
\* result; when a submit_challenge request fails, send ends with that
\* request's error and no message of its own.
C10_Challenge ==
    /\ Classified =>
          /\ snd.challenges = Ascending(AutoChallenged(snd.results, Len(snd.results)))
          /\ \A i \in 1..Len(snd.results) :
                IsProofRequired(snd.results[i]) =>
                    /\ snd.outcome.kind = "raise"
                    /\ \E k \in 1..Len(snd.outcome.message) :
                          /\ snd.outcome.message[k].kind = "proof_required"
                          /\ snd.outcome.message[k].src = i
    /\ snd.pc = "challenge" =>
          snd.challenges = Ascending(AutoChallenged(snd.results, snd.at))
    /\ (snd.pc = "done" /\ snd.challenges # <<>> /\ ~Classified) =>
          /\ snd.outcome.kind \in RequestErrors
          /\ snd.outcome.message = <<>>

\* C10 witness: send has raised over a result that offered PUSH_CHALLENGE alone,
\* challenged, and one that offered it with RECAPTCHA, not challenged.
C10_Witness ==
    /\ Classified /\ snd.outcome.kind = "raise"
    /\ \E i, j \in 1..Len(snd.results) :
          /\ IsProofRequired(snd.results[i]) /\ IsProofRequired(snd.results[j])
          /\ snd.results[i].proof_required_failure.options = {"PUSH_CHALLENGE"}
          /\ snd.results[j].proof_required_failure.options
                = {"PUSH_CHALLENGE", "RECAPTCHA"}
          /\ i \in Range(snd.challenges) /\ j \notin Range(snd.challenges)

\* The send request has been answered with a response and send has ended.
SendResponded == snd.pc = "done" /\ (snd.failed = "" \/ snd.challenges # <<>>)

\* C11 as stated: once the send request has returned a response, the summary
\* of successful, total and unregistered deliveries is logged exactly once by
\* the time send ends, whether it returns or raises, also when a
\* submit_challenge request issued during the classification fails.
C11_AsStated == SendResponded => Len(snd.summaries) = 1

\* C11, the part that holds: the summary is logged exactly once, and counts
\* the results as classified, on every path on which no submit_challenge
\* request fails; a failed submit_challenge ends send with no summary logged.
C11_SummaryUnlessChallengeFails ==
    SendResponded =>
        IF snd.failed = ""
        THEN snd.summaries =
                 <<[sent |-> Count(snd.results, IsSuccess),
                    total |-> Len(snd.results),
                    unregistered |-> Count(snd.results, IsUnregistered)]>>
        ELSE snd.summaries = <<>>

\* The last step handled a pushed frame whose type tag names no event variant.
UnknownTagFrame ==
    /\ last.task = "dsp" /\ last.kind \notin {"add", "remove", "remove_ValueError"}
    /\ last.err \notin Variants

C12_NoHandlerRuns == UnknownTagFrame => last.log = <<>>

\* The last step began the dispatch of an event whose variant had no handler
\* registered at that moment.
DispatchKinds == {"dispatch_nokey", "dispatch_empty", "dispatch_start"}
ZeroHandlerDispatch ==
    last.task = "dsp" /\ last.kind \in DispatchKinds /\ last.start = <<>>

\* C13 as stated: the dispatch of an event whose variant has no registered
\* handler, because none was ever registered or because each one has been
\* unregistered since, raises no error, runs no handler and logs the
\* no-handlers message (the step dispatch_nokey is the branch of line 67, the
\* only one that logs it).
C13_AsStated ==
    ZeroHandlerDispatch =>
        last.fin = "done" /\ last.log = <<>> /\ last.kind = "dispatch_nokey"

\* C13, the part that holds: such a dispatch raises no error and runs no
\* handler; it logs the message exactly when the registry has no key for the
\* variant, that is when no registration or unregistration ever named it.
C13_NoHandlersNoError ==
    ZeroHandlerDispatch =>
        /\ last.fin = "done" /\ last.log = <<>>
        /\ last.kind = "dispatch_nokey" <=> ~event_handlers[last.err].present

\* What a trust call that has got as far as its request or its end did with the
\* two optional arguments, of which `given` tells whether one was supplied.
TrustFields == {"safety_number", "qr_code_data"}
TrustCalled == call.cmd = "trust" /\ call.pc \in {"req", "done"}
TrustChecks(given(_)) ==
    LET safety_number == call.input[1]
        qr_code_data == call.input[2]
    IN IF given(safety_number) = given(qr_code_data)
       THEN /\ call.pc = "done" /\ call.outcome.kind = "ValueError"
            /\ call.sent = 0 /\ call.request = NoRequest
       ELSE /\ call.sent = 1 /\ call.request.command = "trust"
            /\ call.outcome.kind # "ValueError"
            /\ {p \in call.request.params : p.key \in TrustFields} =
                  IF given(safety_number)
                  THEN {[key |-> "safety_number", value |-> safety_number]}
                  ELSE {[key |-> "qr_code_data", value |-> qr_code_data]}

\* C14 as stated: trust called with both of safety_number and qr_code_data
\* supplied (not None), or with neither, raises the validation error and sends
\* no request; called with exactly one of them it sends exactly one trust
\* request, which carries that one of the two fields and not the other.
C14_AsStated == TrustCalled => TrustChecks(LAMBDA x : x # None)

\* C14: the same with `supplied` read as the code tests it: an argument that is
\* None or the empty string counts as not supplied.
C14_Trust == TrustCalled => TrustChecks(LAMBDA x : x # None /\ x # "")

\* C14 witness: a trust call with an empty safety_number and a qr_code_data has
\* sent its one request.
C14_Witness ==
    /\ call.cmd = "trust" /\ call.pc = "req" /\ call.sent = 1
    /\ call.input[1] = "" /\ call.input[2] \notin {None, ""}

\* C15: a transport error (UnexpectedError) of the request is swallowed by
\* subscribe and by unsubscribe, which return failure; every other command,
\* send and the submit_challenge request inside send included, ends by raising
\* that same error.
C15_TransportErrors ==
    /\ (last.task = "user" /\ last.err \in ErrorTexts) =>
           last.kind \in {"sub_dispatch", "hdl_done", "sub_False", "unsub_False"}
    /\ (call.pc = "done" /\ call.answer.kind = "UnexpectedError") =>
           call.outcome = [kind |-> "UnexpectedError", value |-> call.answer.text]
    /\ (snd.pc = "done" /\ snd.failed = "UnexpectedError") =>
           snd.outcome = [kind |-> "UnexpectedError", message |-> <<>>]

\* C15 witness: the submit_challenge request that send issued has failed with
\* a transport error and send has ended.
C15_Witness ==
    snd.pc = "done" /\ snd.failed = "UnexpectedError" /\ snd.challenges # <<>>

\* C16: get_profile returns None when its request fails with an
\* UnexpectedResponse whose tag is profile_not_available, raises that same
\* error when the tag is another one, and returns the deserialized profile when
\* the request succeeds.
C16_GetProfile ==
    (call.cmd = "get_profile" /\ call.pc = "done") =>
        CASE call.answer.kind = "ok" ->
                call.outcome = [kind |-> "return", value |-> "Profile"]
          [] call.answer.kind = "UnexpectedResponse" ->
                IF call.answer.text = "profile_not_available"
                THEN call.outcome = [kind |-> "return", value |-> None]
                ELSE call.outcome = [kind |-> "UnexpectedResponse",
                                     value |-> call.answer.text]
          [] OTHER -> TRUE

\* C16 witness: get_profile has raised the UnexpectedResponse of another tag.
C16_Witness ==
    /\ call.cmd = "get_profile" /\ call.pc = "done"
    /\ call.answer = [kind |-> "UnexpectedResponse", text |-> "unexpected_tag"]

\* The names under which a request carries its recipient, and the requests
\* in flight that carry one: <<command, kind of recipient, request>>.
RecipientNames == {"address", "group", "recipientAddress", "recipientGroupId"}
NamesIn(request) == Keys(request.params) \cap RecipientNames
RecipientRequests ==
    (IF call.cmd \in {"react", "remote_delete"} /\ call.pc = "req"
     THEN {<<call.cmd, call.input[1].kind, call.request>>} ELSE {})
    \cup (IF snd.pc = "send_req"
          THEN {<<"send", snd.recipient.kind, snd.request>>} ELSE {})

\* C17 as stated: react names an Address recipient `address` and a GroupID
\* recipient `group`; remote_delete and send name them `recipientAddress` and
\* `recipientGroupId`; each request carries exactly one of the names.
C17_AsStated ==
    \A r \in RecipientRequests :
        NamesIn(r[3]) =
            IF r[1] = "react"
            THEN {IF r[2] = "Address" THEN "address" ELSE "group"}
            ELSE {IF r[2] = "Address" THEN "recipientAddress" ELSE "recipientGroupId"}

\* C17: remote_delete names an Address recipient `address` and a GroupID
\* recipient `group`; react and send name them `recipientAddress` and
\* `recipientGroupId`; each request carries exactly one of the names.
C17_RecipientNames ==
    \A r \in RecipientRequests :
        NamesIn(r[3]) =
            IF r[1] = "remote_delete"
            THEN {IF r[2] = "Address" THEN "address" ELSE "group"}
            ELSE {IF r[2] = "Address" THEN "recipientAddress" ELSE "recipientGroupId"}

\* C17 witness: a remote_delete for a group is in flight.
C17_Witness ==
    /\ call.cmd = "remote_delete" /\ call.pc = "req"
    /\ call.input[1].kind = "GroupID"

\* C18 as stated: the DISCONNECT handler ends without raising and has
\* dispatched an event for every account that was in the subscription set when
\* it started, also when a caller's subscribe or unsubscribe was answered, and
\* changed the set, while the handler awaited an event handler.
C18_AsStated ==
    (last.task = "disc" /\ last.fin # "") =>
        /\ last.fin = "done"
        /\ \A a \in Range(last.start) :
              \E i \in 1..Len(last.log) : last.log[i].account = a

\* C18, the part that holds: a DISCONNECT handler that raises does so because
\* the set's size changed under its iteration, and one that ends normally with
\* the set as it was when it started has notified every account.
C18_UnlessSetChanges ==
    (last.task = "disc" /\ last.fin # "") =>
        /\ last.fin = "raise" => Cardinality(subscriptions) # Len(last.start)
        /\ ListOf(subscriptions) = last.start =>
              \/ last.fin = "raise"
              \/ \A a \in Range(last.start) :
                    \E i \in 1..Len(last.log) : last.log[i].account = a

\* C20 as stated: an unsubscribe(a) whose request is acknowledged while a is
\* not in the subscription set returns success and does not raise.
C20_AsStated ==
    [][(/\ user.pc = "unsub_req" /\ user.acct \notin subscriptions
        /\ last'.task = "user" /\ last'.kind \in UnsubscribeAnswers
        /\ last'.err = "ok")
       => last'.kind = "unsub_True"]_vars

\* C20, the part that holds: such an unsubscribe leaves the set as it is.
C20_SetKept ==
    [][(/\ user.pc = "unsub_req" /\ user.acct \notin subscriptions
        /\ last'.task = "user" /\ last'.kind \in UnsubscribeAnswers)
       => subscriptions' = subscriptions]_vars

\* C19 as stated: once unsubscribe(a) has returned success, and until a caller
\* calls subscribe(a) again, a is out of the subscription set and the CONNECT
\* handler sends no subscribe request for a, also when it took its snapshot
\* while a was still a member.
C19_AsStated ==
    [][\A a \in unsubscribed' :
          /\ a \notin subscriptions'
          /\ Request("conn", "subscribe", a) \notin (pending' \ pending)]_vars

\* C19, the part that holds: only the CONNECT handler brings such an account
\* back, and only one of the snapshot it took.
C19_OnlyResubscribe ==
    [][\A a \in unsubscribed' :
          (a \in subscriptions' /\ a \notin subscriptions) =>
              last'.task = "conn" /\ \E i \in 1..Len(conn.snap) : conn.snap[i] = a]_vars

\* How often the handler h occurs in a sequence of handlers.
Times(h, handlers) == Cardinality({i \in 1..Len(handlers) : handlers[i] = h})

\* C21 as stated: when a dispatch ends, every handler that was registered
\* (once) for the event's variant when the dispatch began has been invoked
\* exactly once, also when handlers of that variant were registered or
\* unregistered while the dispatch awaited a handler.
C21_AsStated ==
    last.kind = "dispatch_done" =>
        \A h \in Handlers :
            Times(h, last.start) = 1 => Times(h, Started(last.log)) = 1

\* C21, the part that holds: each handler the dispatch invokes is, at that
\* moment, registered for the variant; and a dispatch during which the list is
\* not changed invokes exactly the handlers registered when it began.
C21_InvokesRegistered ==
    /\ last.kind \in {"dispatch_start", "dispatch_next"} =>
          Times(last.log[Len(last.log)].h, regOrder[last.err]) > 0
    /\ (last.kind = "dispatch_done" /\ ~last.mutated) =>
          \A h \in Handlers : Times(h, Started(last.log)) = Times(h, last.start)

====
